---- MODULE Spec2Model ----
(***************************************************************************)
(* Server-side composition access control of nextauth-uniform:            *)
(* the access-control enhancer (annotator), filterUnauthorizedComponents  *)
(* (filter) and the three page handlers that run them (CMSPage,           *)
(* ProtectedCMSPage, HomePage).                                           *)
(*                                                                         *)
(* A composition is a tree of component instances.  Trees are values:     *)
(* a component is a record [id, parameters, data, slots], slots maps a    *)
(* slot name to a sequence of components.  The code mutates one tree in   *)
(* place and the tree has no aliasing, so replacing the value held by the *)
(* variable is the same as the in-place mutation.                         *)
(*                                                                         *)
(* Specifications:                                                         *)
(*   Spec         - one request served by one of the page handlers         *)
(*   SpecEnhancer - the two data enhancers applied to one component        *)
(*   SpecTree     - the annotator and the filter applied to a tree, in any *)
(*                  order and any number of times                          *)
(*   SpecServer   - two requests whose annotate and filter steps           *)
(*                  interleave                                             *)
(*   SpecMiddleware  - the auth and locale middleware in front of           *)
(*                     ProtectedCMSPage                                    *)
(*   SpecFormatPath  - formatPath applied to a path and to its own result   *)
(*   SpecAuthOptions - authOptions built from process.env                   *)
(***************************************************************************)
EXTENDS Integers, Sequences, FiniteSets, TLC

\* ------------------------------------------------------------------ bounds

\* Largest number of components below the composition root.
MaxNodes == 3

\* ------------------------------------------------------------ JS values

Undefined == "<undefined>"
Null == "<null>"

\* An object with no own keys (also stands for an absent object that is
\* only read through optional chaining).
EmptyMap == [k \in {} |-> k]

\* JavaScript truthiness of the string-or-undefined values the code tests.
Truthy(v) == v \notin {Undefined, Null, ""}

\* obj[key] = value on a plain object.
SetKey(obj, key, value) ==
  [k \in (DOMAIN obj) \cup {key} |-> IF k = key THEN value ELSE obj[k]]

\* --------------------------------------------------------------- sessions

\* What getServerSession can answer: null, a session without a user, or a
\* session with a user.
NoSession == [present |-> FALSE, user |-> Undefined]

Sessions ==
  { NoSession,
    [present |-> TRUE, user |-> Undefined],
    [present |-> TRUE, user |-> "alice"] }

\* session?.user
SessionUser(s) == IF s.present THEN s.user ELSE Undefined

\* ------------------------------------------------------------- components

\* component.parameters?.accessType?.value
AccessTypeValue(component) ==
  IF "accessType" \in DOMAIN component.parameters
    THEN component.parameters["accessType"]
    ELSE Undefined

\* Stands for a slot value that is not an array of components (an object,
\* a string): the one value of a slot that is not a list of components.
NotAnArray ==
  << [ id |-> 0 - 2, parameters |-> EmptyMap, data |-> EmptyMap,
       slots |-> EmptyMap ] >>

\* Array.isArray(slot)
IsArray(slot) == slot # NotAnArray

\* The components in the slots of a component, slot by slot.
Children(component) ==
  UNION { { component.slots[s][i] : i \in 1..Len(component.slots[s]) } :
          s \in { t \in DOMAIN component.slots : IsArray(component.slots[t]) } }

RECURSIVE Descendants(_)
\* Every component strictly below a component, at any depth.
Descendants(component) ==
  UNION { {c} \cup Descendants(c) : c \in Children(component) }

\* The root and everything below it.
Nodes(composition) == {composition} \cup Descendants(composition)

\* ------------------------------------------------- access-control enhancer

\* Mutant: authentication decided by the presence of a session record alone.
authStateEnhancer_sessionOnly(context) ==
  [ isAuthenticated |-> context.session.present,
    user |-> IF Truthy(SessionUser(context.session))
               THEN SessionUser(context.session)
               ELSE Null ]

\* The data enhancer registered under '_authState'.
authStateEnhancer(context) ==
  [ isAuthenticated |-> Truthy(SessionUser(context.session)),
    user |-> IF Truthy(SessionUser(context.session))
               THEN SessionUser(context.session)
               ELSE Null ]

\* Mutant: the 'everyone' default is tested before the Canvas bypass.
accessControlEnhancer_everyoneFirst(component, context) ==
  LET accessType == AccessTypeValue(component)
      isAuthenticated == Truthy(SessionUser(context.session))
  IN  IF ~Truthy(accessType) \/ accessType = "everyone"
        THEN [allowed |-> TRUE, reason |-> "everyone"]
      ELSE IF context.isCanvasMode
        THEN [allowed |-> TRUE, reason |-> "canvas-mode"]
      ELSE IF accessType = "users" /\ ~isAuthenticated
        THEN [allowed |-> FALSE, reason |-> "requires-auth"]
      ELSE IF accessType = "anonymous" /\ isAuthenticated
        THEN [allowed |-> FALSE, reason |-> "anonymous-only"]
      ELSE [allowed |-> TRUE, reason |-> "authorized"]

\* Mutant: a session record without a user counts as authenticated.
accessControlEnhancer_sessionOnly(component, context) ==
  IF context.isCanvasMode
    THEN [allowed |-> TRUE, reason |-> "canvas-mode"]
    ELSE
      LET accessType == AccessTypeValue(component)
          isAuthenticated == context.session.present
      IN  IF ~Truthy(accessType) \/ accessType = "everyone"
            THEN [allowed |-> TRUE, reason |-> "everyone"]
          ELSE IF accessType = "users" /\ ~isAuthenticated
            THEN [allowed |-> FALSE, reason |-> "requires-auth"]
          ELSE IF accessType = "anonymous" /\ isAuthenticated
            THEN [allowed |-> FALSE, reason |-> "anonymous-only"]
          ELSE [allowed |-> TRUE, reason |-> "authorized"]

\* Mutant: the Canvas bypass is not tested at all.
accessControlEnhancer_noBypass(component, context) ==
  LET accessType == AccessTypeValue(component)
      isAuthenticated == Truthy(SessionUser(context.session))
  IN  IF ~Truthy(accessType) \/ accessType = "everyone"
        THEN [allowed |-> TRUE, reason |-> "everyone"]
      ELSE IF accessType = "users" /\ ~isAuthenticated
        THEN [allowed |-> FALSE, reason |-> "requires-auth"]
      ELSE IF accessType = "anonymous" /\ isAuthenticated
        THEN [allowed |-> FALSE, reason |-> "anonymous-only"]
      ELSE [allowed |-> TRUE, reason |-> "authorized"]

\* Mutant: a component that already carries a decision is taken as checked
\* and allowed.
accessControlEnhancer_skipsAnnotated(component, context) ==
  LET accessType == AccessTypeValue(component)
      isAuthenticated == Truthy(SessionUser(context.session))
  IN  IF context.isCanvasMode
        THEN [allowed |-> TRUE, reason |-> "canvas-mode"]
      ELSE IF "_accessControl" \in DOMAIN component.data
        THEN [allowed |-> TRUE, reason |-> "authorized"]
      ELSE IF ~Truthy(accessType) \/ accessType = "everyone"
        THEN [allowed |-> TRUE, reason |-> "everyone"]
      ELSE IF accessType = "users" /\ ~isAuthenticated
        THEN [allowed |-> FALSE, reason |-> "requires-auth"]
      ELSE IF accessType = "anonymous" /\ isAuthenticated
        THEN [allowed |-> FALSE, reason |-> "anonymous-only"]
      ELSE [allowed |-> TRUE, reason |-> "authorized"]

\* Mutant: an accessType that is none of the declared ones is denied.
accessControlEnhancer_unknownDenied(component, context) ==
  LET accessType == AccessTypeValue(component)
      isAuthenticated == Truthy(SessionUser(context.session))
  IN  IF context.isCanvasMode
        THEN [allowed |-> TRUE, reason |-> "canvas-mode"]
      ELSE IF ~Truthy(accessType) \/ accessType = "everyone"
        THEN [allowed |-> TRUE, reason |-> "everyone"]
      ELSE IF accessType = "users" /\ ~isAuthenticated
        THEN [allowed |-> FALSE, reason |-> "requires-auth"]
      ELSE IF accessType = "anonymous" /\ isAuthenticated
        THEN [allowed |-> FALSE, reason |-> "anonymous-only"]
      ELSE IF accessType \notin {"users", "anonymous"}
        THEN [allowed |-> FALSE, reason |-> "requires-auth"]
      ELSE [allowed |-> TRUE, reason |-> "authorized"]

\* The data enhancer registered under '_accessControl'.
accessControlEnhancer(component, context) ==
  IF context.isCanvasMode
    THEN [allowed |-> TRUE, reason |-> "canvas-mode"]
    ELSE
      LET accessType == AccessTypeValue(component)
          isAuthenticated == Truthy(SessionUser(context.session))
      IN  IF ~Truthy(accessType) \/ accessType = "everyone"
            THEN [allowed |-> TRUE, reason |-> "everyone"]
          ELSE IF accessType = "users" /\ ~isAuthenticated
            THEN [allowed |-> FALSE, reason |-> "requires-auth"]
          ELSE IF accessType = "anonymous" /\ isAuthenticated
            THEN [allowed |-> FALSE, reason |-> "anonymous-only"]
          ELSE [allowed |-> TRUE, reason |-> "authorized"]

\* Mutant: the data of the component is replaced by the two keys.
enhanceComponent_replacesData(component, context) ==
  [ component EXCEPT
      !.data = [ k \in {"_authState", "_accessControl"} |->
                   IF k = "_authState"
                     THEN authStateEnhancer(context)
                     ELSE accessControlEnhancer(component, context) ] ]

\* One component enhanced by createAccessControlEnhancer(): both data keys
\* are written, everything else is kept.
enhanceComponent(component, context) ==
  [ component EXCEPT
      !.data = SetKey(SetKey(component.data, "_authState", authStateEnhancer(context)),
                      "_accessControl", accessControlEnhancer(component, context)) ]

RECURSIVE enhance(_, _)
\* enhance({composition, enhancers: createAccessControlEnhancer(), context}):
\* the enhancers run on the root and on every component of every slot.
enhance(composition, context) ==
  LET own == enhanceComponent(composition, context)
  IN  [ own EXCEPT
          !.slots = [ s \in DOMAIN composition.slots |->
                        IF IsArray(composition.slots[s])
                          THEN [ i \in 1..Len(composition.slots[s]) |->
                                   enhance(composition.slots[s][i], context) ]
                          ELSE composition.slots[s] ] ]

\* ------------------------------------------------------------------ filter

\* Mutant: only the 'requires-auth' denial is filtered out.
filterSlotKeeps_requiresAuthOnly(component) ==
  IF "_accessControl" \notin DOMAIN component.data
    THEN TRUE
    ELSE component.data["_accessControl"].reason # "requires-auth"

\* Mutant: a component without an _accessControl entry is dropped.
filterSlotKeeps_failClosed(component) ==
  IF "_accessControl" \notin DOMAIN component.data
    THEN FALSE
    ELSE component.data["_accessControl"].allowed # FALSE

\* The predicate given to components.filter(...) in filterSlot.
filterSlotKeeps(component) ==
  IF "_accessControl" \notin DOMAIN component.data
    THEN TRUE
    ELSE component.data["_accessControl"].allowed # FALSE

RECURSIVE filterSlot(_)

\* Mutant: a denied component is replaced by the components of its slots
\* instead of being removed with them.
filterSlot_hoist(components) ==
  LET slotOrEmpty(c, s) ==
        IF s \in DOMAIN c.slots /\ IsArray(c.slots[s])
          THEN filterSlot(c.slots[s])
          ELSE <<>>
      one(c) ==
        IF filterSlotKeeps(c)
          THEN << [ c EXCEPT
                      !.slots = [ s \in DOMAIN c.slots |->
                                    IF IsArray(c.slots[s])
                                      THEN filterSlot(c.slots[s])
                                      ELSE c.slots[s] ] ] >>
          ELSE slotOrEmpty(c, "main") \o slotOrEmpty(c, "aside")
      RECURSIVE from(_)
      from(i) ==
        IF i > Len(components) THEN <<>> ELSE one(components[i]) \o from(i + 1)
  IN  from(1)

\* Mutant: denied components are removed while the array is walked, so the
\* component that follows a removed one is not tested.
filterSlot_skipAfterRemoval(components) ==
  LET processed(c) ==
        [ c EXCEPT
            !.slots = [ s \in DOMAIN c.slots |->
                          IF IsArray(c.slots[s])
                            THEN filterSlot(c.slots[s])
                            ELSE c.slots[s] ] ]
      RECURSIVE from(_)
      from(i) ==
        IF i > Len(components)
          THEN <<>>
          ELSE IF filterSlotKeeps(components[i])
            THEN <<processed(components[i])>> \o from(i + 1)
            ELSE IF i + 1 > Len(components)
              THEN <<>>
              ELSE <<processed(components[i + 1])>> \o from(i + 2)
  IN  from(1)

\* Mutant: the slots of the kept components are not filtered.
filterSlot_noRecursion(components) == SelectSeq(components, filterSlotKeeps)

\* filterSlot: drop the denied components, then filter the slots of the
\* kept ones.
filterSlot(components) ==
  LET kept == SelectSeq(components, filterSlotKeeps)
  IN  [ i \in 1..Len(kept) |->
          [ kept[i] EXCEPT
              !.slots = [ s \in DOMAIN kept[i].slots |->
                            IF IsArray(kept[i].slots[s])
                              THEN filterSlot(kept[i].slots[s])
                              ELSE kept[i].slots[s] ] ] ]

\* Mutant: a slot of the root that the filter empties is deleted.
filterUnauthorizedComponents_dropsEmptySlots(composition) ==
  LET filtered(s) ==
        IF IsArray(composition.slots[s])
          THEN filterSlot(composition.slots[s])
          ELSE composition.slots[s]
  IN  [ composition EXCEPT
          !.slots = [ s \in { t \in DOMAIN composition.slots :
                                filtered(t) # <<>> } |-> filtered(s) ] ]

\* Mutant: the slots of the root are filtered only when all of them are
\* arrays.
filterUnauthorizedComponents_arraysOnly(composition) ==
  IF \A s \in DOMAIN composition.slots : IsArray(composition.slots[s])
    THEN [ composition EXCEPT
             !.slots = [ s \in DOMAIN composition.slots |->
                           filterSlot(composition.slots[s]) ] ]
    ELSE composition

\* filterUnauthorizedComponents(composition): every slot of the root is
\* replaced by its filtered array; the root itself is never tested.
filterUnauthorizedComponents(composition) ==
  [ composition EXCEPT
      !.slots = [ s \in DOMAIN composition.slots |->
                    IF IsArray(composition.slots[s])
                      THEN filterSlot(composition.slots[s])
                      ELSE composition.slots[s] ] ]

\* ------------------------------------------------- content service answers

\* accessType values given to the components of the fetched compositions.
TreeAccessTypes == {"everyone", "users", "anonymous"}

\* The two slot names used; the component with id i sits in SlotOf(i) of its
\* parent.
SlotOf(i) == IF i % 2 = 1 THEN "main" ELSE "aside"

RECURSIVE AscSeq(_)
\* The members of a set of numbers as an ascending sequence.
AscSeq(S) ==
  IF S = {}
    THEN <<>>
    ELSE LET m == CHOOSE x \in S : \A y \in S : x <= y
         IN  <<m>> \o AscSeq(S \ {m})

\* Tree shapes over the components 1..n below the root 0: component i hangs
\* under the root or under component i-1.
Shapes(n) == { par \in [1..n -> 0..n] : \A i \in 1..n : par[i] \in {0, i - 1} }

RECURSIVE BuildNode(_, _, _, _)
\* The component i of the tree with shape par and accessType assignment at,
\* as the content service delivers it (no enhancer data yet).
BuildNode(i, n, par, at) ==
  LET kids == { j \in 1..n : par[j] = i }
      childSeq(s) == AscSeq({ j \in kids : SlotOf(j) = s })
  IN  [ id |-> i,
        parameters |-> [k \in {"accessType"} |-> at[i]],
        data |-> EmptyMap,
        slots |-> [ s \in { SlotOf(j) : j \in kids } |->
                      [ x \in 1..Len(childSeq(s)) |->
                          BuildNode(childSeq(s)[x], n, par, at) ] ] ]

\* Every composition the content service may deliver within the bound.
Compositions ==
  UNION { { BuildNode(0, n, par, at) :
              par \in Shapes(n), at \in [0..n -> TreeAccessTypes] } :
          n \in 0..MaxNodes }

\* Stands for route.compositionApiResponse?.composition being undefined.
NoComposition ==
  [id |-> 0 - 1, parameters |-> EmptyMap, data |-> EmptyMap, slots |-> EmptyMap]

\* What retrieveRoute may answer.
RouteResponses ==
  { [type |-> "composition", targetUrl |-> Undefined, hasComposition |-> TRUE,
     composition |-> c] : c \in Compositions }
  \cup
  { [type |-> "composition", targetUrl |-> Undefined, hasComposition |-> FALSE,
     composition |-> NoComposition],
    [type |-> "redirect", targetUrl |-> "/moved", hasComposition |-> FALSE,
     composition |-> NoComposition],
    [type |-> "redirect", targetUrl |-> Undefined, hasComposition |-> FALSE,
     composition |-> NoComposition],
    [type |-> "notFound", targetUrl |-> Undefined, hasComposition |-> FALSE,
     composition |-> NoComposition] }

\* The route local before retrieveRoute has answered.
NoRoute ==
  [type |-> Undefined, targetUrl |-> Undefined, hasComposition |-> FALSE,
   composition |-> NoComposition]

Pages == {"CMSPage", "ProtectedCMSPage", "HomePage"}

\* The enhancer context before enhance is called.
NoContext == [preview |-> FALSE, isCanvasMode |-> FALSE, session |-> NoSession]

\* How a request ends.
Pending == [kind |-> "pending", url |-> Undefined]
Render == [kind |-> "render", url |-> Undefined]
NotFound == [kind |-> "notFound", url |-> Undefined]
Redirect(url) == [kind |-> "redirect", url |-> url]
\* The handler's promise rejects with the error of a call it awaited.
Failed == [kind |-> "error", url |-> Undefined]

\* The awaited upstream call that rejects during the request, if any.
Failures == {"none", "retrieveRoute", "getServerSession"}

\* No requests processed side by side: the handler serves one request.
NoRequests == <<>>

\* No helper function is called on its own.
NoArgs == <<>>
NoResult == <<>>

\* ------------------------------------------------------------------- state

VARIABLES
  page,          \* the page handler serving the request
  request,       \* [draftMode, is_incontext_editing_mode]: the draft-mode
                 \* cookie state and the query flag of the request
  authSession,   \* what getServerSession answers for the request
  content,       \* what retrieveRoute answers for the request
  failure,       \* the upstream call that rejects during the request
  requests,      \* the requests the server processes at the same time: for
                 \* each its position, context, delivered tree and own tree
  args,          \* the arguments a helper function is called with
  result,        \* what the helper function returned
  pc,            \* position of the handler
  route,         \* local: the route, holding the composition mutated in place
  isDraftMode,   \* local
  isCanvasMode,  \* local
  session,       \* local: session (realSession in ProtectedCMSPage)
  context,       \* the context object given to enhance
  outcome,       \* [kind, url]: pending, render, notFound or redirect to url
  rendered,      \* the composition handed to UniformComposition
  calls,         \* the calls made so far, in order
  annotated,     \* history: the composition as enhance left it
  component      \* the component the enhancers are applied to on their own

env == <<page, request, authSession, content, failure, requests, args,
         result>>
locals == <<route, isDraftMode, isCanvasMode, session>>
vars == <<page, request, authSession, content, failure, requests, args,
          result, pc, route,
          isDraftMode,
          isCanvasMode, session, context, outcome, rendered, calls, annotated,
          component>>

Init ==
  /\ page \in Pages
  /\ request \in [draftMode : BOOLEAN, is_incontext_editing_mode : BOOLEAN]
  /\ failure \in Failures
  /\ requests = NoRequests
  /\ args = NoArgs
  /\ result = NoResult
  /\ authSession \in IF failure = "getServerSession" THEN {NoSession} ELSE Sessions
  /\ content \in IF failure = "retrieveRoute" THEN {NoRoute} ELSE RouteResponses
  /\ pc = "start"
  /\ route = NoRoute
  /\ isDraftMode = FALSE
  /\ isCanvasMode = FALSE
  /\ session = NoSession
  /\ context = NoContext
  /\ outcome = Pending
  /\ rendered = NoComposition
  /\ calls = <<>>
  /\ annotated = NoComposition
  /\ component = NoComposition

\* ------------------------------------------------- steps the pages share

\* isCanvasMode as CMSPage computes it.
CMSPage_isCanvasMode(draft, isIncontextEditing) == draft \/ isIncontextEditing

\* isCanvasMode as HomePage computes it.
HomePage_isCanvasMode(draft, isIncontextEditing) == draft \/ isIncontextEditing

\* getCanvasMode(context).isCanvasMode, serverDraftMode being draftMode().
getCanvasMode(isContextualEditing, draft, serverDraftMode) ==
  isContextualEditing /\ (draft \/ serverDraftMode)

\* detectCanvasMode(context).isSecureCanvasMode in a component,
\* serverDraftMode being draftMode().
detectCanvasMode(isContextualEditing, draft, serverDraftMode) ==
  isContextualEditing /\ (draft \/ serverDraftMode)

\* HeroComponent falls through to its production-mode rendering.
HeroComponent_production(req) ==
  ~detectCanvasMode(req.is_incontext_editing_mode, req.draftMode,
                    req.draftMode)

\* The composition-level accessType CMSPage reads from the root.
compositionAccessType(composition) ==
  IF AccessTypeValue(composition) = Undefined
    THEN "everyone"
    ELSE AccessTypeValue(composition)

\* An awaited call rejects and nothing catches it: the handler ends there.
Throw(call) ==
  /\ outcome' = Failed
  /\ calls' = Append(calls, call)
  /\ pc' = "done"
  /\ UNCHANGED <<env, locals, context, rendered, annotated, component>>

\* Mutant: only the redirect answer ends the request.
RouteTypeStep_redirectOnly(next) ==
  /\ IF route.type = "redirect"
       THEN /\ outcome' = IF Truthy(route.targetUrl)
                            THEN Redirect(route.targetUrl)
                            ELSE NotFound
            /\ calls' = Append(calls, IF Truthy(route.targetUrl)
                                        THEN "redirect" ELSE "notFound")
            /\ pc' = "done"
       ELSE /\ pc' = next
            /\ UNCHANGED <<outcome, calls>>
  /\ UNCHANGED <<env, locals, context, rendered, annotated, component>>

\* if (route.type === "redirect") {...} if (route.type !== "composition") {...}
RouteTypeStep(next) ==
  /\ IF route.type = "redirect"
       THEN /\ outcome' = IF Truthy(route.targetUrl)
                            THEN Redirect(route.targetUrl)
                            ELSE NotFound
            /\ calls' = Append(calls, IF Truthy(route.targetUrl)
                                        THEN "redirect" ELSE "notFound")
            /\ pc' = "done"
       ELSE IF route.type # "composition"
         THEN /\ outcome' = NotFound
              /\ calls' = Append(calls, "notFound")
              /\ pc' = "done"
         ELSE /\ pc' = next
              /\ UNCHANGED <<outcome, calls>>
  /\ UNCHANGED <<env, locals, context, rendered, annotated, component>>

\* Mutant: the data enhancers look the session up for every component.
EnhanceStep_lookupPerNode ==
  /\ IF route.hasComposition
       THEN LET ctx == [ preview |-> isDraftMode,
                         isCanvasMode |-> isCanvasMode,
                         session |-> session ]
                n == Cardinality(Nodes(route.composition))
            IN  /\ context' = ctx
                /\ route' = [route EXCEPT
                               !.composition = enhance(route.composition, ctx)]
                /\ annotated' = enhance(route.composition, ctx)
                /\ calls' = calls \o [i \in 1..n |-> "getServerSession"]
                                  \o <<"enhance">>
                /\ pc' = "filter"
       ELSE /\ pc' = "render"
            /\ UNCHANGED <<context, route, annotated, calls>>
  /\ UNCHANGED <<env, isDraftMode, isCanvasMode, session, outcome, rendered,
                 component>>

\* if (composition) { await enhance({composition, enhancers, context}) ...
EnhanceStep ==
  /\ IF route.hasComposition
       THEN LET ctx == [ preview |-> isDraftMode,
                         isCanvasMode |-> isCanvasMode,
                         session |-> session ]
            IN  /\ context' = ctx
                /\ route' = [route EXCEPT
                               !.composition = enhance(route.composition, ctx)]
                /\ annotated' = enhance(route.composition, ctx)
                /\ calls' = Append(calls, "enhance")
                /\ pc' = "filter"
       ELSE /\ pc' = "render"
            /\ UNCHANGED <<context, route, annotated, calls>>
  /\ UNCHANGED <<env, isDraftMode, isCanvasMode, session, outcome, rendered,
                 component>>

\* Mutant: the filter switch is recomputed from draft mode alone.
FilterStep_recomputed ==
  /\ IF ~isDraftMode
       THEN /\ route' = [route EXCEPT
                           !.composition =
                             filterUnauthorizedComponents(route.composition)]
            /\ calls' = Append(calls, "filterUnauthorizedComponents")
       ELSE UNCHANGED <<route, calls>>
  /\ pc' = "render"
  /\ UNCHANGED <<env, isDraftMode, isCanvasMode, session, context, outcome,
                 rendered, annotated, component>>

\* ... if (!isCanvasMode) { filterUnauthorizedComponents(composition) } }
FilterStep ==
  /\ IF ~isCanvasMode
       THEN /\ route' = [route EXCEPT
                           !.composition =
                             filterUnauthorizedComponents(route.composition)]
            /\ calls' = Append(calls, "filterUnauthorizedComponents")
       ELSE UNCHANGED <<route, calls>>
  /\ pc' = "render"
  /\ UNCHANGED <<env, isDraftMode, isCanvasMode, session, context, outcome,
                 rendered, annotated, component>>

\* return <UniformComposition route={route} ... />
RenderStep ==
  /\ rendered' = route.composition
  /\ outcome' = Render
  /\ calls' = Append(calls, "UniformComposition")
  /\ pc' = "done"
  /\ UNCHANGED <<env, locals, context, annotated, component>>

\* ----------------------------------------------------------------- CMSPage

CMSPage_retrieveRoute ==
  /\ page = "CMSPage" /\ pc = "start"
  /\ IF failure = "retrieveRoute"
       THEN Throw("retrieveRoute")
       ELSE /\ route' = content
            /\ calls' = Append(calls, "retrieveRoute")
            /\ pc' = "draftMode"
            /\ UNCHANGED <<env, isDraftMode, isCanvasMode, session, context, outcome,
                           rendered, annotated, component>>

CMSPage_draftMode ==
  /\ page = "CMSPage" /\ pc = "draftMode"
  /\ isDraftMode' = request.draftMode
  /\ isCanvasMode' = CMSPage_isCanvasMode(request.draftMode,
                                          request.is_incontext_editing_mode)
  /\ calls' = Append(calls, "draftMode")
  /\ pc' = "routeType"
  /\ UNCHANGED <<env, route, session, context, outcome, rendered, annotated, component>>

CMSPage_routeType ==
  /\ page = "CMSPage" /\ pc = "routeType"
  /\ RouteTypeStep("getServerSession")

\* Mutant: a failed session lookup is caught and read as no session.
CMSPage_getServerSession_caught ==
  /\ page = "CMSPage" /\ pc = "getServerSession"
  /\ session' = authSession
  /\ calls' = Append(calls, "getServerSession")
  /\ pc' = "accessType"
  /\ UNCHANGED <<env, route, isDraftMode, isCanvasMode, context, outcome,
                 rendered, annotated, component>>

CMSPage_getServerSession ==
  /\ page = "CMSPage" /\ pc = "getServerSession"
  /\ IF failure = "getServerSession"
       THEN Throw("getServerSession")
       ELSE /\ session' = authSession
            /\ calls' = Append(calls, "getServerSession")
            /\ pc' = "accessType"
            /\ UNCHANGED <<env, route, isDraftMode, isCanvasMode, context, outcome,
                           rendered, annotated, component>>

\* The composition-level access control of CMSPage.
CMSPage_accessType ==
  /\ page = "CMSPage" /\ pc = "accessType"
  /\ LET isAuthenticated == Truthy(SessionUser(session))
         accessType == compositionAccessType(route.composition)
     IN  IF ~isCanvasMode /\ accessType = "users" /\ ~isAuthenticated
           THEN /\ outcome' = Redirect("/access-denied?reason=users")
                /\ calls' = Append(calls, "redirect")
                /\ pc' = "done"
         ELSE IF ~isCanvasMode /\ accessType = "anonymous" /\ isAuthenticated
           THEN /\ outcome' = Redirect("/access-denied?reason=anonymous")
                /\ calls' = Append(calls, "redirect")
                /\ pc' = "done"
         ELSE /\ pc' = "enhance"
              /\ UNCHANGED <<outcome, calls>>
  /\ UNCHANGED <<env, locals, context, rendered, annotated, component>>

CMSPage_enhance == page = "CMSPage" /\ pc = "enhance" /\ EnhanceStep

CMSPage_filter == page = "CMSPage" /\ pc = "filter" /\ FilterStep

CMSPage_render == page = "CMSPage" /\ pc = "render" /\ RenderStep

\* -------------------------------------------------------- ProtectedCMSPage

ProtectedCMSPage_retrieveRoute ==
  /\ page = "ProtectedCMSPage" /\ pc = "start"
  /\ IF failure = "retrieveRoute"
       THEN Throw("retrieveRoute")
       ELSE /\ route' = content
            /\ calls' = Append(calls, "retrieveRoute")
            /\ pc' = "draftMode"
            /\ UNCHANGED <<env, isDraftMode, isCanvasMode, session, context, outcome,
                           rendered, annotated, component>>

ProtectedCMSPage_draftMode ==
  /\ page = "ProtectedCMSPage" /\ pc = "draftMode"
  /\ isDraftMode' = request.draftMode
  /\ calls' = Append(calls, "draftMode")
  /\ pc' = "getDisplayUser"
  /\ UNCHANGED <<env, route, isCanvasMode, session, context, outcome, rendered,
                 annotated, component>>

\* getDisplayUser(routeContext): the session lookup, then getCanvasMode.
ProtectedCMSPage_getDisplayUser ==
  /\ page = "ProtectedCMSPage" /\ pc = "getDisplayUser"
  /\ IF failure = "getServerSession"
       THEN Throw("getServerSession")
       ELSE /\ session' = authSession
            /\ isCanvasMode' = getCanvasMode(request.is_incontext_editing_mode,
                                             isDraftMode, request.draftMode)
            /\ calls' = calls \o <<"getServerSession", "draftMode">>
            /\ pc' = "routeType"
            /\ UNCHANGED <<env, route, isDraftMode, context, outcome, rendered,
                           annotated, component>>

ProtectedCMSPage_routeType ==
  /\ page = "ProtectedCMSPage" /\ pc = "routeType"
  /\ RouteTypeStep("login")

\* Mutant: only a missing session is sent to /login.
ProtectedCMSPage_login_missingSessionOnly ==
  /\ page = "ProtectedCMSPage" /\ pc = "login"
  /\ IF ~session.present /\ ~isCanvasMode
       THEN /\ outcome' = Redirect("/login")
            /\ calls' = Append(calls, "redirect")
            /\ pc' = "done"
       ELSE /\ pc' = "enhance"
            /\ UNCHANGED <<outcome, calls>>
  /\ UNCHANGED <<env, locals, context, rendered, annotated, component>>

\* if (!realSession?.user && !isCanvasMode) redirect("/login")
ProtectedCMSPage_login ==
  /\ page = "ProtectedCMSPage" /\ pc = "login"
  /\ IF ~Truthy(SessionUser(session)) /\ ~isCanvasMode
       THEN /\ outcome' = Redirect("/login")
            /\ calls' = Append(calls, "redirect")
            /\ pc' = "done"
       ELSE /\ pc' = "enhance"
            /\ UNCHANGED <<outcome, calls>>
  /\ UNCHANGED <<env, locals, context, rendered, annotated, component>>

ProtectedCMSPage_enhance ==
  page = "ProtectedCMSPage" /\ pc = "enhance" /\ EnhanceStep

ProtectedCMSPage_filter ==
  page = "ProtectedCMSPage" /\ pc = "filter" /\ FilterStep

ProtectedCMSPage_render ==
  page = "ProtectedCMSPage" /\ pc = "render" /\ RenderStep

\* ---------------------------------------------------------------- HomePage

HomePage_draftMode ==
  /\ page = "HomePage" /\ pc = "start"
  /\ isDraftMode' = request.draftMode
  /\ calls' = Append(calls, "draftMode")
  /\ pc' = "retrieveRoute"
  /\ UNCHANGED <<env, route, isCanvasMode, session, context, outcome, rendered,
                 annotated, component>>

HomePage_retrieveRoute ==
  /\ page = "HomePage" /\ pc = "retrieveRoute"
  /\ IF failure = "retrieveRoute"
       THEN Throw("retrieveRoute")
       ELSE /\ route' = content
            /\ calls' = Append(calls, "retrieveRoute")
            /\ pc' = "getServerSession"
            /\ UNCHANGED <<env, isDraftMode, isCanvasMode, session, context, outcome,
                           rendered, annotated, component>>

HomePage_getServerSession ==
  /\ page = "HomePage" /\ pc = "getServerSession"
  /\ IF failure = "getServerSession"
       THEN Throw("getServerSession")
       ELSE /\ session' = authSession
            /\ isCanvasMode' = HomePage_isCanvasMode(isDraftMode,
                                                     request.is_incontext_editing_mode)
            /\ calls' = Append(calls, "getServerSession")
            /\ pc' = "routeType"
            /\ UNCHANGED <<env, route, isDraftMode, context, outcome, rendered,
                           annotated, component>>

\* Mutant: the handler goes on to the filter without running enhance.
HomePage_routeType_skipEnhance ==
  /\ page = "HomePage" /\ pc = "routeType"
  /\ RouteTypeStep("filter")

HomePage_routeType ==
  /\ page = "HomePage" /\ pc = "routeType"
  /\ RouteTypeStep("enhance")

HomePage_enhance == page = "HomePage" /\ pc = "enhance" /\ EnhanceStep

HomePage_filter == page = "HomePage" /\ pc = "filter" /\ FilterStep

HomePage_render == page = "HomePage" /\ pc = "render" /\ RenderStep

\* ------------------------------------------------------------ specification

Next ==
  \/ CMSPage_retrieveRoute
  \/ CMSPage_draftMode
  \/ CMSPage_routeType
  \/ CMSPage_getServerSession
  \/ CMSPage_accessType
  \/ CMSPage_enhance
  \/ CMSPage_filter
  \/ CMSPage_render
  \/ ProtectedCMSPage_retrieveRoute
  \/ ProtectedCMSPage_draftMode
  \/ ProtectedCMSPage_getDisplayUser
  \/ ProtectedCMSPage_routeType
  \/ ProtectedCMSPage_login
  \/ ProtectedCMSPage_enhance
  \/ ProtectedCMSPage_filter
  \/ ProtectedCMSPage_render
  \/ HomePage_draftMode
  \/ HomePage_retrieveRoute
  \/ HomePage_getServerSession
  \/ HomePage_routeType
  \/ HomePage_enhance
  \/ HomePage_filter
  \/ HomePage_render

Spec == Init /\ [][Next]_vars

\* ------------------------------------- the enhancers applied to one component

\* accessType values a component may carry: none, empty, the three declared
\* ones and a string that is none of them.
EnhancerAccessTypes ==
  {Undefined, "", "everyone", "users", "anonymous", "members"}

EnhancerComponents ==
  { [ id |-> 1,
      parameters |-> IF at = Undefined
                       THEN EmptyMap
                       ELSE [k \in {"accessType"} |-> at],
      data |-> EmptyMap,
      slots |-> EmptyMap ] : at \in EnhancerAccessTypes }

InitEnhancer ==
  /\ page = "enhancer"
  /\ request = [draftMode |-> FALSE, is_incontext_editing_mode |-> FALSE]
  /\ authSession = NoSession
  /\ failure = "none"
  /\ requests = NoRequests
  /\ args = NoArgs
  /\ result = NoResult
  /\ content = NoRoute
  /\ pc = "enhancer"
  /\ route = NoRoute
  /\ isDraftMode = FALSE
  /\ isCanvasMode = FALSE
  /\ session = NoSession
  /\ context \in [preview : BOOLEAN, isCanvasMode : BOOLEAN, session : Sessions]
  /\ outcome = Pending
  /\ rendered = NoComposition
  /\ calls = <<>>
  /\ annotated = NoComposition
  /\ component \in EnhancerComponents

\* .data('_authState', ...) run on the component.
Enhancer_authState ==
  /\ pc = "enhancer"
  /\ component' = [component EXCEPT
                     !.data = SetKey(component.data, "_authState",
                                     authStateEnhancer(context))]
  /\ UNCHANGED <<env, pc, locals, context, outcome, rendered, calls, annotated>>

\* .data('_accessControl', ...) run on the component.
Enhancer_accessControl ==
  /\ pc = "enhancer"
  /\ component' = [component EXCEPT
                     !.data = SetKey(component.data, "_accessControl",
                                     accessControlEnhancer(component, context))]
  /\ UNCHANGED <<env, pc, locals, context, outcome, rendered, calls, annotated>>

NextEnhancer == Enhancer_authState \/ Enhancer_accessControl

SpecEnhancer == InitEnhancer /\ [][NextEnhancer]_vars

\* ----------------------------- the annotator and the filter applied to trees

\* The components a tree may be made of before either function has run:
\*   bare    - no parameters, no data, and a slot whose value is not an array
\*   users   - accessType 'users', no data
\*   denied  - accessType 'anonymous', data already holding a denial and a
\*             key of another enhancer
\*   allowed - accessType 'everyone', data already holding an allowance
TreeKinds == {"bare", "users", "denied", "allowed"}

KindParameters(kind) ==
  CASE kind = "bare" -> EmptyMap
    [] kind = "users" -> [k \in {"accessType"} |-> "users"]
    [] kind = "denied" -> [k \in {"accessType"} |-> "anonymous"]
    [] kind = "allowed" -> [k \in {"accessType"} |-> "everyone"]

KindData(kind) ==
  CASE kind = "bare" -> EmptyMap
    [] kind = "users" -> EmptyMap
    [] kind = "denied" ->
         [k \in {"_accessControl", "title"} |->
            IF k = "title"
              THEN "Hello"
              ELSE [allowed |-> FALSE, reason |-> "requires-auth"]]
    [] kind = "allowed" ->
         [k \in {"_accessControl"} |->
            [allowed |-> TRUE, reason |-> "everyone"]]

RECURSIVE BuildTreeNode(_, _, _, _)
\* The component i of the tree with shape par and kind assignment kinds.
BuildTreeNode(i, n, par, kinds) ==
  LET kids == { j \in 1..n : par[j] = i }
      childSeq(s) == AscSeq({ j \in kids : SlotOf(j) = s })
      arrays == { SlotOf(j) : j \in kids }
      others == IF kinds[i] = "bare" THEN {"settings"} ELSE {}
  IN  [ id |-> i,
        parameters |-> KindParameters(kinds[i]),
        data |-> KindData(kinds[i]),
        slots |-> [ s \in arrays \cup others |->
                      IF s \in arrays
                        THEN [ x \in 1..Len(childSeq(s)) |->
                                 BuildTreeNode(childSeq(s)[x], n, par, kinds) ]
                        ELSE NotAnArray ] ]

\* Every tree either function may be given within the bound.
Trees ==
  UNION { { BuildTreeNode(0, n, par, kinds) :
              par \in Shapes(n), kinds \in [0..n -> TreeKinds] } :
          n \in 0..MaxNodes }

\* The contexts enhance may be given with a tree.
TreeContexts ==
  [ preview : {FALSE}, isCanvasMode : BOOLEAN,
    session : {NoSession, [present |-> TRUE, user |-> "alice"]} ]

InitTree ==
  /\ page = "tree"
  /\ request = [draftMode |-> FALSE, is_incontext_editing_mode |-> FALSE]
  /\ authSession = NoSession
  /\ failure = "none"
  /\ requests = NoRequests
  /\ args = NoArgs
  /\ result = NoResult
  /\ content \in { [type |-> "composition", targetUrl |-> Undefined,
                     hasComposition |-> TRUE, composition |-> c] : c \in Trees }
  /\ pc = "tree"
  /\ route = NoRoute
  /\ isDraftMode = FALSE
  /\ isCanvasMode = FALSE
  /\ session = NoSession
  /\ context \in TreeContexts
  /\ outcome = Pending
  /\ rendered = NoComposition
  /\ calls = <<>>
  /\ annotated = NoComposition
  /\ component = content.composition

\* await enhance({composition, enhancers: createAccessControlEnhancer(),
\* context}) on the tree; annotated keeps the tree as it was before the call.
Tree_enhance ==
  /\ pc \in {"tree", "enhance", "filter"}
  /\ annotated' = component
  /\ component' = enhance(component, context)
  /\ pc' = "enhance"
  /\ UNCHANGED <<env, locals, context, outcome, rendered, calls>>

\* filterUnauthorizedComponents(composition) on the tree; annotated keeps the
\* tree as it was before the call.
Tree_filter ==
  /\ pc \in {"tree", "enhance", "filter"}
  /\ annotated' = component
  /\ component' = filterUnauthorizedComponents(component)
  /\ pc' = "filter"
  /\ UNCHANGED <<env, locals, context, outcome, rendered, calls>>

NextTree == Tree_enhance \/ Tree_filter

SpecTree == InitTree /\ [][NextTree]_vars

\* ------------------------------------------- two requests at the same time

Requests == {"A", "B"}

RECURSIVE OtherAudience(_)
\* The composition with 'users' and 'anonymous' exchanged on every component:
\* the tree of the other page.
OtherAudience(n) ==
  [ n EXCEPT
      !.parameters =
        [ k \in DOMAIN n.parameters |->
            IF n.parameters[k] = "users" THEN "anonymous"
            ELSE IF n.parameters[k] = "anonymous" THEN "users"
            ELSE n.parameters[k] ],
      !.slots = [ s \in DOMAIN n.slots |->
                    [ i \in 1..Len(n.slots[s]) |->
                        OtherAudience(n.slots[s][i]) ] ] ]

\* Request A is answered any composition, request B the composition of the
\* other page; each has its own mode and its own tree object, and the two
\* viewers differ: one has a session with a user, the other has none.
InitServer ==
  /\ page = "server"
  /\ request = [draftMode |-> FALSE, is_incontext_editing_mode |-> FALSE]
  /\ authSession = NoSession
  /\ failure = "none"
  /\ content = NoRoute
  /\ pc = "server"
  /\ route = NoRoute
  /\ isDraftMode = FALSE
  /\ isCanvasMode = FALSE
  /\ session = NoSession
  /\ context = NoContext
  /\ outcome = Pending
  /\ rendered = NoComposition
  /\ calls = <<>>
  /\ annotated = NoComposition
  /\ component = NoComposition
  /\ args = NoArgs
  /\ result = NoResult
  /\ \E c \in Compositions :
       \E ctx \in [Requests -> TreeContexts] :
         /\ ctx["A"].session # ctx["B"].session
         /\ requests =
              [ r \in Requests |->
                  LET tree == IF r = "A" THEN c ELSE OtherAudience(c)
                  IN  [ pc |-> "enhance", context |-> ctx[r],
                        delivered |-> tree, composition |-> tree ] ]

\* Mutant: the context is kept in module scope, set by request A.
ContextOf_shared(r) == requests["A"].context

\* The context object the handler of request r gives to enhance.
ContextOf(r) == requests[r].context

\* await enhance({composition, enhancers, context}) of request r.
Server_enhance(r) ==
  /\ page = "server"
  /\ requests[r].pc = "enhance"
  /\ requests' =
       [ requests EXCEPT
           ![r].composition = enhance(requests[r].composition, ContextOf(r)),
           ![r].pc = "filter" ]
  /\ calls' = Append(calls, r)
  /\ UNCHANGED <<page, request, authSession, content, failure, args, result,
                 pc, locals, context, outcome, rendered, annotated, component>>

\* if (!isCanvasMode) { filterUnauthorizedComponents(composition) } of
\* request r.
Server_filter(r) ==
  /\ page = "server"
  /\ requests[r].pc = "filter"
  /\ requests' =
       [ requests EXCEPT
           ![r].composition =
              IF ~requests[r].context.isCanvasMode
                THEN filterUnauthorizedComponents(requests[r].composition)
                ELSE requests[r].composition,
           ![r].pc = "done" ]
  /\ calls' = Append(calls, r)
  /\ UNCHANGED <<page, request, authSession, content, failure, args, result,
                 pc, locals, context, outcome, rendered, annotated, component>>

NextServer == \E r \in Requests : Server_enhance(r) \/ Server_filter(r)

SpecServer == InitServer /\ [][NextServer]_vars

\* -------------------------------------------------------------- middleware

\* A pathname is the sequence of its segments: <<>> is "/", <<"en", "cms">>
\* is "/en/cms".
locales == {"en", "fr"}
defaultLocale == "en"
NON_LOCALIZED_ROUTES == {"api", "_next", "login", "playground"}

\* The pathnames requests are made for.
Pathnames ==
  { <<>>, <<"en">>, <<"fr", "cms">>, <<"en", "cms-protected">>,
    <<"fr", "cms-protected", "members">>, <<"cms-protected">>, <<"about">>,
    <<"english">>, <<"api", "content">>, <<"apiary">>, <<"login">>,
    <<"playground">>, <<"_next", "static">>, <<"api", "auth">> }

\* The strings of interest a path segment starts with.
PrefixesOf(segment) ==
  CASE segment = "english" -> {"en", "english"}
    [] segment = "apiary" -> {"api", "apiary"}
    [] segment = "auth" -> {"auth"}
    [] OTHER -> {segment}

\* pathname.startsWith('/' + prefix)
StartsWith(pathname, prefix) ==
  Len(pathname) >= 1 /\ prefix \in PrefixesOf(pathname[1])

\* pathname.includes('/' + part)
Includes(pathname, part) ==
  \E i \in 1..Len(pathname) : part \in PrefixesOf(pathname[i])

\* The value process.env.UNIFORM_PREVIEW_SECRET holds on the server.
UNIFORM_PREVIEW_SECRET == "s3cret"

\* config.matcher: the middleware runs unless the path starts with _next or
\* api/auth (paths with a dot are not among the pathnames).
Matches(pathname) ==
  /\ ~StartsWith(pathname, "_next")
  /\ ~(Len(pathname) >= 2 /\ pathname[1] = "api"
         /\ "auth" \in PrefixesOf(pathname[2]))

\* The condition under which the authorized callback admits Canvas.
CanvasBypass(req) ==
  LET isCanvasEditing == req.is_incontext_editing_mode
      hasPreviewSecret == req.secret = UNIFORM_PREVIEW_SECRET
      hasDraftMode == req.cookie # "none"
  IN  hasDraftMode \/ (isCanvasEditing /\ hasPreviewSecret)

\* Mutant: only a path that starts with /cms-protected needs a token.
authorized_startsWith(req, token) ==
  IF CanvasBypass(req)
    THEN TRUE
  ELSE IF StartsWith(req.pathname, "cms-protected")
    THEN token
  ELSE TRUE

\* callbacks.authorized({req, token})
authorized(req, token) ==
  IF CanvasBypass(req)
    THEN TRUE
  ELSE IF Includes(req.pathname, "cms-protected")
    THEN token
  ELSE TRUE

\* Mutant: a path is taken to have its locale only when segments follow it.
pathnameIsMissingLocale_needsSlash(pathname) ==
  \A locale \in locales : ~(Len(pathname) >= 2 /\ pathname[1] = locale)

\* locales.every(locale => !pathname.startsWith(`/${locale}/`) &&
\*                         pathname !== `/${locale}`)
pathnameIsMissingLocale(pathname) ==
  \A locale \in locales :
    /\ ~(Len(pathname) >= 2 /\ pathname[1] = locale)
    /\ pathname # <<locale>>

\* NON_LOCALIZED_ROUTES.some(route => pathname.startsWith(route))
shouldSkipLocale(pathname) ==
  \E r \in NON_LOCALIZED_ROUTES : StartsWith(pathname, r)

\* The request went through the middleware and its path has no page handler
\* in the model.
Passed == [kind |-> "next", url |-> Undefined]

\* A request as the middleware sees it: the pathname, the two query
\* parameters, the __prerender_bypass cookie (none, one the client made up,
\* or the one /api/preview set) and, for the page, draftMode().isEnabled.
MiddlewareRequests ==
  { r \in [ pathname : Pathnames,
            is_incontext_editing_mode : BOOLEAN,
            secret : {Null, UNIFORM_PREVIEW_SECRET, "guess"},
            cookie : {"none", "forged", "valid"},
            draftMode : BOOLEAN ] :
      r.draftMode = (r.cookie = "valid") }

\* The answers of the content service for a page without slots.
RootOnlyResponses ==
  { r \in RouteResponses : Cardinality(Nodes(r.composition)) = 1 }

InitMiddleware ==
  /\ page = "middleware"
  /\ request \in MiddlewareRequests
  /\ authSession \in Sessions
  /\ failure = "none"
  /\ requests = NoRequests
  /\ args = NoArgs
  /\ result = NoResult
  /\ content \in RootOnlyResponses
  /\ pc = "authorized"
  /\ route = NoRoute
  /\ isDraftMode = FALSE
  /\ isCanvasMode = FALSE
  /\ session = NoSession
  /\ context = NoContext
  /\ outcome = Pending
  /\ rendered = NoComposition
  /\ calls = <<>>
  /\ annotated = NoComposition
  /\ component = NoComposition

\* The request reaches the page of its path: /[locale]/cms-protected/... is
\* served by ProtectedCMSPage, the other pages are not followed.
Serve ==
  IF Len(request.pathname) >= 2 /\ request.pathname[2] = "cms-protected"
    THEN page' = "ProtectedCMSPage" /\ pc' = "start" /\ outcome' = outcome
    ELSE page' = page /\ pc' = "done" /\ outcome' = Passed

\* withAuth: the authorized callback decides with the token of the request;
\* a refusal redirects to pages.signIn.
Middleware_authorized ==
  /\ page = "middleware" /\ pc = "authorized"
  /\ IF ~Matches(request.pathname)
       THEN Serve /\ calls' = calls
       ELSE IF authorized(request, authSession.present)
         THEN /\ pc' = "middlewareHandler"
              /\ calls' = Append(calls, "authorized")
              /\ UNCHANGED <<page, outcome>>
         ELSE /\ pc' = "done"
              /\ outcome' = Redirect("/login")
              /\ calls' = Append(calls, "signIn")
              /\ page' = page
  /\ UNCHANGED <<request, authSession, content, failure, requests, args,
                 result, locals, context, rendered, annotated, component>>

\* middlewareHandler(req): a redirect answer is followed by the client with
\* a request for the new URL, which new URL(path, req.url) leaves without
\* query parameters.
Middleware_middlewareHandler ==
  /\ page = "middleware" /\ pc = "middlewareHandler"
  /\ LET pathname == request.pathname
         follow(target) ==
           /\ request' = [request EXCEPT
                            !.pathname = target,
                            !.is_incontext_editing_mode = FALSE,
                            !.secret = Null]
           /\ calls' = Append(calls, "NextResponse.redirect")
           /\ pc' = "authorized"
           /\ UNCHANGED <<page, outcome>>
     IN  IF pathname = <<>>
           THEN follow(<<defaultLocale>>)
         ELSE IF pathnameIsMissingLocale(pathname) /\ ~shouldSkipLocale(pathname)
           THEN follow(<<defaultLocale>> \o pathname)
         ELSE /\ Serve
              /\ calls' = Append(calls, "NextResponse.next")
              /\ request' = request
  /\ UNCHANGED <<authSession, content, failure, requests, args, result,
                 locals, context, rendered, annotated, component>>

NextMiddleware ==
  \/ Middleware_authorized
  \/ Middleware_middlewareHandler
  \/ ProtectedCMSPage_retrieveRoute
  \/ ProtectedCMSPage_draftMode
  \/ ProtectedCMSPage_getDisplayUser
  \/ ProtectedCMSPage_routeType
  \/ ProtectedCMSPage_login
  \/ ProtectedCMSPage_enhance
  \/ ProtectedCMSPage_filter
  \/ ProtectedCMSPage_render

SpecMiddleware == InitMiddleware /\ [][NextMiddleware]_vars

\* --------------------------------------------------- locale helper (paths)

\* Longest path, in segments, handed to formatPath.
MaxSegments == 2

\* The locale configuration imported from ./locales.json.
i18n == [locales |-> {"en", "fr", "nl"}, defaultLocale |-> "en"]

\* The words a path is made of; a string path is its words joined by '/'.
PathWords == {"en", "fr", "about", "shoes"}
SegmentSeqs == UNION {[1..n -> PathWords] : n \in 0..MaxSegments}

\* path?: string | string[].  An array holds one word per element, a string
\* holds the words of its text; the string with no words is ''.
NoPath == [kind |-> "undefined", segments |-> <<>>]
ArrayPath(segments) == [kind |-> "array", segments |-> segments]
StringPath(segments) == [kind |-> "string", segments |-> segments]
Paths ==
  {NoPath} \cup {ArrayPath(w) : w \in SegmentSeqs}
           \cup {StringPath(w) : w \in SegmentSeqs}

\* locale?: string | null, as the handlers pass it.
LocaleArgs == {Undefined, Null, "", "en", "fr", "de"}

\* Array.isArray(path) ? path : [path], each element as the words of its
\* text; locales.includes(segment) compares whole texts.
isLocaleInPath(path) ==
  LET segments == IF path.kind = "array"
                    THEN [i \in 1..Len(path.segments) |-> <<path.segments[i]>>]
                    ELSE <<path.segments>>
  IN  \E i \in 1..Len(segments) : segments[i] \in {<<l>> : l \in i18n.locales}

\* locale || i18n.defaultLocale
localeForPath(locale) == IF Truthy(locale) THEN locale ELSE i18n.defaultLocale

\* !path: undefined and '' are falsy, every array is truthy.
PathIsFalsy(path) ==
  \/ path.kind = "undefined"
  \/ path.kind = "string" /\ path.segments = <<>>

formatPath(path, locale) ==
  IF PathIsFalsy(path) THEN StringPath(<<localeForPath(locale)>>)
  ELSE IF isLocaleInPath(path) THEN path
  ELSE [kind |-> path.kind,
        segments |-> <<localeForPath(locale)>> \o path.segments]

\* formatPath is called with a path and a locale, and then again with its
\* own result and the same locale.
InitFormatPath ==
  /\ page = "formatPath"
  /\ request = [draftMode |-> FALSE, is_incontext_editing_mode |-> FALSE]
  /\ authSession = NoSession
  /\ failure = "none"
  /\ requests = NoRequests
  /\ args \in [path : Paths, locale : LocaleArgs]
  /\ result = NoResult
  /\ content = NoRoute
  /\ pc = "formatPath"
  /\ route = NoRoute
  /\ isDraftMode = FALSE
  /\ isCanvasMode = FALSE
  /\ session = NoSession
  /\ context = NoContext
  /\ outcome = Pending
  /\ rendered = NoComposition
  /\ calls = <<>>
  /\ annotated = NoComposition
  /\ component = NoComposition

FormatPath_call ==
  /\ page = "formatPath"
  /\ pc = "formatPath"
  /\ result' = formatPath(args.path, args.locale)
  /\ pc' = "once"
  /\ UNCHANGED <<page, request, authSession, content, failure, requests, args,
                 locals, context, outcome, rendered, calls, annotated,
                 component>>

FormatPath_again ==
  /\ page = "formatPath"
  /\ pc = "once"
  /\ args' = [args EXCEPT !.path = result]
  /\ result' = formatPath(result, args.locale)
  /\ pc' = "twice"
  /\ UNCHANGED <<page, request, authSession, content, failure, requests,
                 locals, context, outcome, rendered, calls, annotated,
                 component>>

NextFormatPath ==
  \/ FormatPath_call
  \/ FormatPath_again

SpecFormatPath == InitFormatPath /\ [][NextFormatPath]_vars

\* -------------------------------------------------- authentication options

\* The fallback of authOptions.secret outside production.
DevelopmentSecret == "development-secret-only-do-not-use-in-production"

\* process.processEnv as auth.ts reads it.
Environments ==
  [AUTH_SECRET : {Undefined, "", "k3y", DevelopmentSecret},
   NODE_ENV : {Undefined, "production", "development", "test"},
   GITHUB_ID : {Undefined, "", "gh-id"},
   GITHUB_SECRET : {Undefined, "", "gh-secret"}]

\* The module threw while it was loaded.
Thrown(message) == [threw |-> TRUE, message |-> message]

\* A secret that stands in for the missing one in production too.
authOptions_secret_alwaysFallback(processEnv) ==
  IF ~Truthy(processEnv.AUTH_SECRET) THEN DevelopmentSecret
  ELSE processEnv.AUTH_SECRET

\* A secret that ignores AUTH_SECRET outside production.
authOptions_secret_devIgnoresEnv(processEnv) ==
  IF processEnv.NODE_ENV = "production"
    THEN (IF ~Truthy(processEnv.AUTH_SECRET) THEN Undefined
          ELSE processEnv.AUTH_SECRET)
    ELSE DevelopmentSecret

\* The immediately invoked function behind authOptions.secret; Undefined
\* stands for its throw.
authOptions_secret(processEnv) ==
  IF ~Truthy(processEnv.AUTH_SECRET)
    THEN IF processEnv.NODE_ENV = "production" THEN Undefined
         ELSE DevelopmentSecret
    ELSE processEnv.AUTH_SECRET

\* process.processEnv.X || ""
OrEmpty(v) == IF Truthy(v) THEN v ELSE ""

\* The authOptions object the module exports, or the error of its load.
authOptions(processEnv) ==
  IF authOptions_secret(processEnv) = Undefined
    THEN Thrown("AUTH_SECRET environment variable is required in production!")
    ELSE [threw |-> FALSE,
          secret |-> authOptions_secret(processEnv),
          signIn |-> "/login",
          strategy |-> "jwt",
          clientId |-> OrEmpty(processEnv.GITHUB_ID),
          clientSecret |-> OrEmpty(processEnv.GITHUB_SECRET)]

InitAuthOptions ==
  /\ page = "auth"
  /\ request = [draftMode |-> FALSE, is_incontext_editing_mode |-> FALSE]
  /\ authSession = NoSession
  /\ failure = "none"
  /\ requests = NoRequests
  /\ args \in Environments
  /\ result = NoResult
  /\ content = NoRoute
  /\ pc = "auth"
  /\ route = NoRoute
  /\ isDraftMode = FALSE
  /\ isCanvasMode = FALSE
  /\ session = NoSession
  /\ context = NoContext
  /\ outcome = Pending
  /\ rendered = NoComposition
  /\ calls = <<>>
  /\ annotated = NoComposition
  /\ component = NoComposition

\* The module is loaded: authOptions is built from process.env, with the
\* console.warn of the fallback.
AuthOptions_build ==
  /\ page = "auth"
  /\ pc = "auth"
  /\ result' = authOptions(args)
  /\ calls' = IF ~Truthy(args.AUTH_SECRET) /\ ~result'.threw
                THEN Append(calls, "console.warn")
                ELSE calls
  /\ outcome' = IF result'.threw THEN Failed ELSE outcome
  /\ pc' = "done"
  /\ UNCHANGED <<page, request, authSession, content, failure, requests, args,
                 locals, context, rendered, annotated, component>>

NextAuthOptions ==
  \/ AuthOptions_build

SpecAuthOptions == InitAuthOptions /\ [][NextAuthOptions]_vars

\* ------------------------------------------------------------------ claims

\* The viewer of a context is authenticated when its session carries a user.
HasUser(s) == s.present /\ s.user # Undefined

Enhanced == "enhance" \in { calls[i] : i \in 1..Len(calls) }
Filtered ==
  "filterUnauthorizedComponents" \in { calls[i] : i \in 1..Len(calls) }

\* The ordered decision table of the access-control policy: the first row
\* that applies gives the decision.  An accessType with no value (undefined
\* or the empty string) counts as absent.
PolicyTable(accessType, bypass, authenticated) ==
  CASE bypass -> [allowed |-> TRUE, reason |-> "canvas-mode"]
    [] ~bypass /\ accessType \in {Undefined, "", "everyone"} ->
         [allowed |-> TRUE, reason |-> "everyone"]
    [] ~bypass /\ accessType = "users" /\ ~authenticated ->
         [allowed |-> FALSE, reason |-> "requires-auth"]
    [] ~bypass /\ accessType = "anonymous" /\ authenticated ->
         [allowed |-> FALSE, reason |-> "anonymous-only"]
    [] OTHER -> [allowed |-> TRUE, reason |-> "authorized"]

\* C1: for every component and every viewer context, the _accessControl value
\* the enhancer writes is the first matching row of the ordered policy table
\* (bypass, everyone/absent, users without authentication, anonymous with
\* authentication, otherwise authorized).
C1_FirstMatchPolicy ==
  "_accessControl" \in DOMAIN component.data =>
    component.data["_accessControl"] =
      PolicyTable(IF "accessType" \in DOMAIN component.parameters
                    THEN component.parameters["accessType"]
                    ELSE Undefined,
                  context.isCanvasMode,
                  HasUser(context.session))

\* C1 witness: a decision reached through the fourth row, the three rows
\* before it not applying.
C1_Witness ==
  /\ "_accessControl" \in DOMAIN component.data
  /\ ~context.isCanvasMode
  /\ component.parameters = [k \in {"accessType"} |-> "anonymous"]
  /\ component.data["_accessControl"] =
       [allowed |-> FALSE, reason |-> "anonymous-only"]

\* C2: outside bypass, on every component of the annotated composition,
\* accessType 'users' gives allowed = isAuthenticated and accessType
\* 'anonymous' gives allowed = ~isAuthenticated, isAuthenticated being the
\* flag of the component's own _authState.
C2_AllowedTracksAuthentication ==
  (Enhanced /\ ~context.isCanvasMode) =>
    \A n \in Nodes(annotated) :
      /\ n.parameters["accessType"] = "users" =>
           n.data["_accessControl"].allowed = n.data["_authState"].isAuthenticated
      /\ n.parameters["accessType"] = "anonymous" =>
           n.data["_accessControl"].allowed = ~n.data["_authState"].isAuthenticated

\* C2 witness: a session record without a user, and a 'users' component
\* denied next to an 'anonymous' component allowed.
C2_Witness ==
  /\ Enhanced /\ ~context.isCanvasMode
  /\ context.session.present /\ context.session.user = Undefined
  /\ \E n, m \in Nodes(annotated) :
       /\ n.parameters["accessType"] = "users"
       /\ ~n.data["_accessControl"].allowed
       /\ m.parameters["accessType"] = "anonymous"
       /\ m.data["_accessControl"].allowed

\* C3 (as amended): after one annotation pass every component of the
\* composition, the root included, carries the same _authState, and it is
\* {isAuthenticated: the session has a user, user: that user or null}.
C3_AuthStateUniform ==
  Enhanced =>
    \A n \in Nodes(annotated) :
      /\ "_authState" \in DOMAIN n.data
      /\ n.data["_authState"].isAuthenticated = HasUser(context.session)
      /\ n.data["_authState"].user =
           IF HasUser(context.session) THEN context.session.user ELSE Null

\* C3 witness: a composition of several components annotated for a session
\* record that has no user.
C3_Witness ==
  /\ Enhanced
  /\ Cardinality(Nodes(annotated)) >= 3
  /\ context.session.present /\ context.session.user = Undefined
  /\ \A n \in Nodes(annotated) : ~n.data["_authState"].isAuthenticated

\* C3 as stated: isAuthenticated is true exactly when a session record
\* exists.
C3_Original ==
  Enhanced =>
    \A n \in Nodes(annotated) :
      /\ "_authState" \in DOMAIN n.data
      /\ n.data["_authState"].isAuthenticated = context.session.present
      /\ n.data["_authState"].user =
           IF HasUser(context.session) THEN context.session.user ELSE Null

\* C4 as stated: the bypass flag a page handler computes is true only when
\* draft mode is on and the is_incontext_editing_mode flag is set.
C4_BypassNeedsDraftAndFlag ==
  isCanvasMode => (request.draftMode /\ request.is_incontext_editing_mode)

\* The ids of the root and of every component below it.
Ids(composition) == { n.id : n \in Nodes(composition) }

\* The ids of an array of components, in order.
IdSeq(components) == [i \in 1..Len(components) |-> components[i].id]

\* The component carries a decision with allowed = false.
Denied(n) ==
  /\ "_accessControl" \in DOMAIN n.data
  /\ n.data["_accessControl"].allowed = FALSE

NodeById(composition, id) == CHOOSE n \in Nodes(composition) : n.id = id

\* Both enhancer keys are present on the root and on everything below it.
AllAnnotated(composition) ==
  \A n \in Nodes(composition) :
    {"_authState", "_accessControl"} \subseteq DOMAIN n.data

RECURSIVE StripData(_)
\* The composition without any derived data: ids, parameters, slots, order.
StripData(n) ==
  [ id |-> n.id,
    parameters |-> n.parameters,
    data |-> EmptyMap,
    slots |-> [ s \in DOMAIN n.slots |->
                  IF IsArray(n.slots[s])
                    THEN [ i \in 1..Len(n.slots[s]) |->
                             StripData(n.slots[s][i]) ]
                    ELSE n.slots[s] ] ]

\* The component carries no decision at all.
Unannotated(n) == "_accessControl" \notin DOMAIN n.data

\* The call was made, and how many times.
Called(name) == \E i \in 1..Len(calls) : calls[i] = name
CallCount(name) == Cardinality({ i \in 1..Len(calls) : calls[i] = name })

\* The position of a call in the log of calls (0 when it was not made).
CallIndex(name) ==
  IF \E i \in 1..Len(calls) : calls[i] = name
    THEN CHOOSE i \in 1..Len(calls) : calls[i] = name
    ELSE 0

\* C5: once the filter has run, no component that was denied, and no
\* component below a denied one (whatever its own decision), is left anywhere
\* in the composition.
C5_DeniedSubtreeRemoved ==
  Filtered =>
    \A n \in Descendants(annotated) :
      Denied(n) =>
        \A d \in {n} \cup Descendants(n) : d.id \notin Ids(route.composition)

\* C5 witness: the filter has run on a composition in which a denied
\* component had a component below it whose own decision was allowed.
C5_Witness ==
  /\ Filtered
  /\ \E n \in Descendants(annotated) :
       /\ Denied(n)
       /\ \E d \in Descendants(n) : d.data["_accessControl"].allowed

\* C6: once the filter has run, every slot of the root and of every surviving
\* component holds exactly the children that were not denied, in their
\* original order, and the slot names are the same.
C6_KeepsAllowedInOrder ==
  Filtered =>
    \A m \in Nodes(route.composition) :
      LET a == NodeById(annotated, m.id)
      IN  /\ DOMAIN m.slots = DOMAIN a.slots
          /\ \A s \in DOMAIN a.slots :
               IdSeq(m.slots[s]) =
                 IdSeq(SelectSeq(a.slots[s], LAMBDA c : ~Denied(c)))

\* C6 witness: two siblings survive in one slot while a slot of a surviving
\* component below the root has lost a child.
C6_Witness ==
  /\ Filtered
  /\ \E m \in Nodes(route.composition) :
       \E s \in DOMAIN m.slots : Len(m.slots[s]) >= 2
  /\ \E m \in Descendants(route.composition) :
       \E s \in DOMAIN m.slots :
         Len(m.slots[s]) < Len(NodeById(annotated, m.id).slots[s])

\* C7 (as amended): when a page handler renders outside Canvas mode, no
\* component in any slot of the composition handed to UniformComposition, at
\* any depth, carries allowed = false; the root is not covered.
C7_NoDeniedSlotComponentRendered ==
  (outcome.kind = "render" /\ ~isCanvasMode) =>
    \A n \in Descendants(rendered) : ~Denied(n)

\* C7 witness: a composition rendered outside Canvas mode after the filter
\* removed a denied component from it.
C7_Witness ==
  /\ outcome.kind = "render" /\ ~isCanvasMode /\ Filtered
  /\ \E n \in Descendants(annotated) : Denied(n)
  /\ Ids(rendered) # Ids(annotated)

\* C7 as stated: no component at all, the root included, carries
\* allowed = false in the composition rendered outside Canvas mode.
C7_Original ==
  (outcome.kind = "render" /\ ~isCanvasMode) =>
    \A n \in Nodes(rendered) : ~Denied(n)

\* C8: when a page handler renders in editor bypass, every component is
\* annotated {allowed: true, reason: 'canvas-mode'} and the composition handed
\* to UniformComposition has exactly the components of the fetched one, in
\* the same slots and order, whatever the session.
C8_BypassKeepsWholeTree ==
  (outcome.kind = "render" /\ isCanvasMode /\ route.hasComposition) =>
    /\ \A n \in Nodes(rendered) :
         /\ "_accessControl" \in DOMAIN n.data
         /\ n.data["_accessControl"] =
              [allowed |-> TRUE, reason |-> "canvas-mode"]
    /\ StripData(rendered) = content.composition

\* C8 witness: a render in bypass with no session of a composition holding a
\* 'users' component.
C8_Witness ==
  /\ outcome.kind = "render" /\ isCanvasMode
  /\ ~authSession.present
  /\ \E n \in Descendants(rendered) : n.parameters["accessType"] = "users"

\* C9: the flag the annotator ran with is the flag the handler holds, and the
\* filter is skipped exactly when the annotator ran with bypass active.
C9_OneFlagForAnnotatorAndFilter ==
  (Enhanced /\ pc \in {"render", "done"}) =>
    /\ context.isCanvasMode = isCanvasMode
    /\ Filtered <=> ~context.isCanvasMode

\* C9 witness: a request past the filter step whose composition was
\* annotated with bypass active and left unfiltered.
C9_Witness ==
  /\ Enhanced /\ pc = "done" /\ ~Filtered
  /\ \E n \in Nodes(annotated) :
       n.data["_accessControl"].reason = "canvas-mode"

\* C10: the filter is reached only with every component annotated; when a
\* composition is rendered, enhance was called before the filter and before
\* UniformComposition, every rendered component is annotated, and outside
\* bypass the filter was called before UniformComposition.
C10_AnnotateThenFilterThenRender ==
  /\ pc = "filter" => (Enhanced /\ AllAnnotated(route.composition))
  /\ Filtered => (0 < CallIndex("enhance") /\
                  CallIndex("enhance") < CallIndex("filterUnauthorizedComponents"))
  /\ (outcome.kind = "render" /\ route.hasComposition) =>
       /\ 0 < CallIndex("enhance")
       /\ CallIndex("enhance") < CallIndex("UniformComposition")
       /\ AllAnnotated(rendered)
       /\ ~isCanvasMode =>
            /\ 0 < CallIndex("filterUnauthorizedComponents")
            /\ CallIndex("filterUnauthorizedComponents") <
                 CallIndex("UniformComposition")

\* C10 witness: a composition of several components rendered after enhance
\* and the filter both ran.
C10_Witness ==
  /\ outcome.kind = "render" /\ Filtered
  /\ Cardinality(Nodes(annotated)) >= 3

\* C11: the filter fails open on unannotated components.  Whenever the
\* filter has just run, below every component it kept (and below the root) a
\* component without an _accessControl entry is kept and a denied one is
\* gone, so a denied component under an unannotated one is removed.
C11_FailsOpenAndStillRecurses ==
  (page = "tree" /\ pc = "filter") =>
    \A p \in Nodes(annotated) :
      p.id \in Ids(component) =>
        \A c \in Children(p) :
          /\ Unannotated(c) => c.id \in Ids(component)
          /\ Denied(c) => c.id \notin Ids(component)

\* The filter ran on a tree where an unannotated component under the root
\* holds a denied component: the former is still there, the latter is not.
C11_Witness ==
  /\ page = "tree" /\ pc = "filter"
  /\ \E c \in Children(annotated) :
       /\ Unannotated(c)
       /\ c.id \in Ids(component)
       /\ \E g \in Children(c) : Denied(g) /\ g.id \notin Ids(component)

\* C12: filtering is idempotent.  A call of filterUnauthorizedComponents
\* that directly follows another one on the same tree changes nothing: the
\* same components, slots, order and data.
C12_FilterIdempotent ==
  [][(page = "tree" /\ pc = "filter" /\ pc' = "filter") =>
       component' = component]_vars

\* A filter call left the tree as it found it, after components had been
\* removed from the tree that was delivered.
C12_Witness ==
  /\ page = "tree" /\ pc = "filter"
  /\ annotated = component
  /\ Ids(component) # Ids(content.composition)

\* C13: annotation is idempotent.  A run of the annotator that directly
\* follows another one on the same tree with the same context changes
\* nothing: every component keeps its _authState and its _accessControl.
C13_AnnotateIdempotent ==
  [][(page = "tree" /\ pc = "enhance" /\ pc' = "enhance") =>
       component' = component]_vars

\* A run of the annotator outside bypass left a tree with a denied component
\* below the root as it found it.
C13_Witness ==
  /\ page = "tree" /\ pc = "enhance"
  /\ ~context.isCanvasMode
  /\ annotated = component
  /\ AllAnnotated(component)
  /\ \E n \in Descendants(component) : Denied(n)

RECURSIVE WithoutEnhancerKeys(_)
\* The tree without the two keys the annotator writes: ids, parameters, the
\* slots with their order, and every other key of the data.
WithoutEnhancerKeys(n) ==
  [ id |-> n.id,
    parameters |-> n.parameters,
    data |-> [ k \in DOMAIN n.data \ {"_authState", "_accessControl"} |->
                 n.data[k] ],
    slots |-> [ s \in DOMAIN n.slots |->
                  IF IsArray(n.slots[s])
                    THEN [ i \in 1..Len(n.slots[s]) |->
                             WithoutEnhancerKeys(n.slots[s][i]) ]
                    ELSE n.slots[s] ] ]

\* C14: the annotator changes nothing but the _authState and _accessControl
\* entries of the data.  Whenever the annotator has just run, the tree
\* without these two keys is the tree it was given without them: the same
\* components in the same slots and order, the same parameters and the same
\* other data keys.
C14_AnnotateWritesTwoKeysOnly ==
  (page = "tree" /\ pc = "enhance") =>
    WithoutEnhancerKeys(component) = WithoutEnhancerKeys(annotated)

\* The annotator ran on a tree with components below the root, one of them
\* holding another data key, and wrote its two keys.
C14_Witness ==
  /\ page = "tree" /\ pc = "enhance"
  /\ component # annotated
  /\ AllAnnotated(component)
  /\ \E n \in Descendants(annotated) : "title" \in DOMAIN n.data
  /\ \E n \in Descendants(component) : n.data["_accessControl"].allowed

C16_MissingOptionalStructure ==
  (page = "tree" /\ pc \in {"enhance", "filter"}) =>
    /\ \A n \in Nodes(component) :
         n.parameters = EmptyMap =>
           /\ n.slots["settings"] = NotAnArray
           /\ ("_accessControl" \in DOMAIN n.data /\ ~context.isCanvasMode) =>
                n.data["_accessControl"] =
                  [allowed |-> TRUE, reason |-> "everyone"]
    /\ pc = "enhance" => AllAnnotated(component)
    /\ pc = "filter" => \A n \in Descendants(component) : ~Denied(n)

\* The annotator and then the filter ran outside bypass on a tree whose root
\* has no parameters and a slot that is not an array: the root is annotated
\* as 'everyone', a denied component under it is gone and a component
\* without slots is kept.
C16_Witness ==
  /\ page = "tree" /\ pc = "filter"
  /\ ~context.isCanvasMode
  /\ component.parameters = EmptyMap
  /\ ~IsArray(component.slots["settings"])
  /\ AllAnnotated(component)
  /\ component.data["_accessControl"].reason = "everyone"
  /\ \E c \in Children(annotated) : Denied(c)
  /\ \E c \in Children(component) : c.slots = EmptyMap

\* C17: a redirect or not-found answer of the content service ends the
\* request before annotation.  In all three page handlers neither enhance nor
\* filterUnauthorizedComponents nor UniformComposition is ever called for
\* such an answer, and when no awaited call fails the handler ends with
\* redirect or notFound.
C17_RedirectOrNotFoundShortCircuits ==
  (page \in Pages /\ content.type \in {"redirect", "notFound"}) =>
    /\ ~Called("enhance")
    /\ ~Called("filterUnauthorizedComponents")
    /\ ~Called("UniformComposition")
    /\ (pc = "done" /\ failure = "none") =>
         outcome.kind \in {"redirect", "notFound"}

\* HomePage, which has already looked the session up, ends a redirect answer
\* with the redirect.
C17_Witness ==
  /\ page = "HomePage" /\ pc = "done"
  /\ content.type = "redirect"
  /\ Called("getServerSession")
  /\ outcome = Redirect("/moved")

\* C18: the session is looked up once per request, before the tree walk, and
\* handed to the annotator as context.  No handler looks the session up more
\* than once, and when enhance has been called the one lookup came before it
\* and its answer is the session of the context, whatever the size of the
\* tree.
C18_OneSessionLookupBeforeWalk ==
  page \in Pages =>
    /\ CallCount("getServerSession") <= 1
    /\ Called("enhance") =>
         /\ CallCount("getServerSession") = 1
         /\ CallIndex("getServerSession") < CallIndex("enhance")
         /\ context.session = authSession

\* The filter has run on a tree of at least three components after a single
\* session lookup.
C18_Witness ==
  /\ page \in Pages
  /\ Called("filterUnauthorizedComponents")
  /\ Cardinality(Nodes(annotated)) > 2
  /\ CallCount("getServerSession") = 1

\* C20: a failing session lookup or content fetch propagates out of the
\* handler.  In a request where one of them fails, the annotator, the filter
\* and UniformComposition are never called and nothing is rendered; the
\* failing call is the last thing the handler does and it ends with the
\* error; a request that ends otherwise ended on a redirect or not-found
\* answer before the failing call was made.
C20_UpstreamFailurePropagates ==
  (page \in Pages /\ failure # "none") =>
    /\ ~Called("enhance")
    /\ ~Called("filterUnauthorizedComponents")
    /\ ~Called("UniformComposition")
    /\ rendered = NoComposition
    /\ Called(failure) =>
         /\ pc = "done"
         /\ outcome = Failed
         /\ calls[Len(calls)] = failure
    /\ pc = "done" =>
         \/ outcome = Failed
         \/ /\ ~Called(failure)
            /\ content.type \in {"redirect", "notFound"}
            /\ outcome.kind \in {"redirect", "notFound"}

\* CMSPage was answered a composition with components below the root, the
\* session lookup failed, and the request ended with the error.
C20_Witness ==
  /\ page = "CMSPage" /\ pc = "done"
  /\ failure = "getServerSession"
  /\ Cardinality(Nodes(route.composition)) > 1
  /\ Called("getServerSession")
  /\ outcome = Failed

\* The tree a request produces when it is the only one: annotated with its
\* context, then filtered unless the request is in Canvas mode.
Alone(r) ==
  LET own == enhance(requests[r].delivered, requests[r].context)
  IN  IF requests[r].context.isCanvasMode
        THEN own
        ELSE filterUnauthorizedComponents(own)

\* C19: two requests processed at the same time do not interfere.  In every
\* interleaving of their annotate and filter steps, the tree of a request is
\* the delivered one until its annotator runs, then the delivered one
\* annotated with its own context, and at the end the tree the request
\* produces alone.
C19_RequestsDoNotInterfere ==
  page = "server" =>
    \A r \in Requests :
      /\ requests[r].pc = "enhance" =>
           requests[r].composition = requests[r].delivered
      /\ requests[r].pc = "filter" =>
           requests[r].composition =
             enhance(requests[r].delivered, requests[r].context)
      /\ requests[r].pc = "done" => requests[r].composition = Alone(r)

\* Both requests are done, B's steps ran between A's, the sessions differ,
\* and a component was removed from A's tree.
C19_Witness ==
  /\ page = "server"
  /\ calls = <<"A", "B", "B", "A">>
  /\ \A r \in Requests : requests[r].pc = "done"
  /\ requests["A"].context.session # requests["B"].context.session
  /\ Ids(requests["A"].composition) # Ids(requests["A"].delivered)
  /\ requests["A"].composition # requests["B"].composition

\* C30: the filter changes nothing but the contents of slot arrays.
\* Whenever the filter has just run, the root is the root it was given with
\* its own parameters and data, whatever its own decision; no component is
\* new; and every surviving component has the slot names, the parameters and
\* the data it had before.
C30_FilterChangesSlotArraysOnly ==
  (page = "tree" /\ pc = "filter") =>
    /\ component.id = annotated.id
    /\ Ids(component) \subseteq Ids(annotated)
    /\ \A n \in Nodes(component) :
         LET before == NodeById(annotated, n.id)
         IN  /\ DOMAIN n.slots = DOMAIN before.slots
             /\ n.parameters = before.parameters
             /\ n.data = before.data

\* The filter ran on a tree whose root is itself denied and emptied a slot
\* of the root: the root and the slot name are still there.
C30_Witness ==
  /\ page = "tree" /\ pc = "filter"
  /\ Denied(component)
  /\ \E s \in DOMAIN component.slots :
       /\ IsArray(annotated.slots[s])
       /\ annotated.slots[s] # <<>>
       /\ component.slots[s] = <<>>

\* C23: ProtectedCMSPage never annotates, filters or renders for a viewer
\* without a session user outside Canvas mode (draft mode together with the
\* editing flag).  For such a request none of the three is ever called, and a
\* composition route ends with the redirect to /login, whatever accessType
\* the composition and its components declare.
C23_ProtectedPageRequiresUser ==
  ( /\ page = "ProtectedCMSPage"
    /\ ~Truthy(SessionUser(authSession))
    /\ ~(request.draftMode /\ request.is_incontext_editing_mode) ) =>
    /\ ~Called("enhance")
    /\ ~Called("filterUnauthorizedComponents")
    /\ ~Called("UniformComposition")
    /\ (pc = "done" /\ failure = "none" /\ content.type = "composition") =>
         outcome = Redirect("/login")

\* A viewer whose session has no user asked, with the editing flag but no
\* draft mode, for a composition open to everyone and was sent to /login.
C23_Witness ==
  /\ page = "ProtectedCMSPage" /\ pc = "done"
  /\ authSession = [present |-> TRUE, user |-> Undefined]
  /\ request.is_incontext_editing_mode /\ ~request.draftMode
  /\ content.hasComposition
  /\ \A n \in Nodes(content.composition) : AccessTypeValue(n) = "everyone"
  /\ Cardinality(Nodes(content.composition)) > 1
  /\ outcome = Redirect("/login")

\* C25: on the /cms route outside Canvas mode (draft mode together with the
\* editing flag) the access type of the composition is enforced before
\* anything is rendered.  When it is 'users' and the viewer has no session
\* user, or 'anonymous' and the viewer has one, CMSPage never calls enhance,
\* the filter or UniformComposition and ends with the redirect to the
\* access-denied page with that reason; otherwise it issues no redirect.
C25_CompositionAccessBeforeRender ==
  ( /\ page = "CMSPage"
    /\ failure = "none"
    /\ content.hasComposition
    /\ ~(request.draftMode /\ request.is_incontext_editing_mode) ) =>
    LET accessType == compositionAccessType(content.composition)
        isAuthenticated == Truthy(SessionUser(authSession))
        reason == IF accessType = "users" /\ ~isAuthenticated THEN "users"
                  ELSE IF accessType = "anonymous" /\ isAuthenticated
                    THEN "anonymous"
                  ELSE "none"
    IN  IF reason = "none"
          THEN outcome.kind # "redirect"
          ELSE /\ ~Called("enhance")
               /\ ~Called("filterUnauthorizedComponents")
               /\ ~Called("UniformComposition")
               /\ pc = "done" =>
                    outcome = IF reason = "users"
                                THEN Redirect("/access-denied?reason=users")
                                ELSE Redirect("/access-denied?reason=anonymous")

\* C21: Canvas access through the middleware needs both the editing flag and
\* the preview secret.  Whenever the authorized callback has admitted a
\* request without a token to a path containing /cms-protected, the request
\* carries is_incontext_editing_mode=true and the secret of the server.
C21_BypassNeedsFlagAndSecret ==
  ( /\ page = "middleware" /\ pc = "middlewareHandler"
    /\ ~authSession.present
    /\ Includes(request.pathname, "cms-protected") ) =>
    /\ request.is_incontext_editing_mode
    /\ request.secret = UNIFORM_PREVIEW_SECRET

\* C22: the authorized callback asks for a token on every path containing
\* /cms-protected unless the Canvas bypass condition holds, and admits every
\* other path.  A request it has admitted to such a path has a token or meets
\* the bypass condition; a request it has sent to the sign-in page is for
\* such a path, has no token and does not meet the bypass condition.
C22_TokenForProtectedPathsOnly ==
  LET protected == Includes(request.pathname, "cms-protected")
      bypass == \/ request.cookie # "none"
                \/ /\ request.is_incontext_editing_mode
                   /\ request.secret = UNIFORM_PREVIEW_SECRET
  IN  /\ (page = "middleware" /\ pc = "middlewareHandler" /\ protected) =>
           (authSession.present \/ bypass)
      /\ Called("signIn") =>
           (protected /\ ~authSession.present /\ ~bypass)

\* A request without a token, cookie or query parameters for
\* /fr/cms-protected/members was sent to the sign-in page.
C22_Witness ==
  /\ page = "middleware" /\ pc = "done"
  /\ request.pathname = <<"fr", "cms-protected", "members">>
  /\ ~authSession.present
  /\ Called("signIn")
  /\ outcome = Redirect("/login")

\* C27: a request without a token that the middleware admits to a
\* /cms-protected route through its Canvas bypass is rendered by
\* ProtectedCMSPage.  Whenever ProtectedCMSPage has finished such a request
\* for a composition route, it has rendered and not redirected to /login.
C27_AdmittedCanvasRequestIsRendered ==
  ( /\ page = "ProtectedCMSPage" /\ pc = "done"
    /\ ~authSession.present
    /\ CanvasBypass(request)
    /\ content.type = "composition" ) =>
    outcome = Render

\* The pathname starts with a locale segment.
HasLocalePrefix(pathname) ==
  Len(pathname) >= 1 /\ pathname[1] \in {"en", "fr"}

\* What the locale handling does with a request, given which pathnames are
\* exempt: / goes to /en, a pathname without locale that is not exempt goes
\* to /en + pathname, every other pathname passes unchanged.
LocaleHandling(exempt(_)) ==
  (page = "middleware" /\ pc = "middlewareHandler") =>
    LET pathname == request.pathname
        redirected == pc' = "authorized"
    IN  IF pathname = <<>>
          THEN redirected /\ request'.pathname = <<"en">>
        ELSE IF ~HasLocalePrefix(pathname) /\ ~exempt(pathname)
          THEN redirected /\ request'.pathname = <<"en">> \o pathname
        ELSE ~redirected /\ request' = request

\* The pathname string starts with /api, /_next, /login or /playground.
StartsWithNonLocalized(pathname) ==
  /\ Len(pathname) >= 1
  /\ PrefixesOf(pathname[1]) \cap {"api", "_next", "login", "playground"} # {}

\* The pathname is one of /api, /_next, /login, /playground or below one.
UnderNonLocalized(pathname) ==
  Len(pathname) >= 1 /\ pathname[1] \in {"api", "_next", "login", "playground"}

\* C28: the locale handling redirects / to /en and a pathname without an /en
\* or /fr prefix whose string does not start with /api, /_next, /login or
\* /playground to /en + pathname, and lets every other pathname through;
\* following the redirects, no request is redirected more than once.
C28_LocaleRedirectsOnce ==
  /\ [][LocaleHandling(StartsWithNonLocalized)]_vars
  /\ [](CallCount("NextResponse.redirect") <= 1)

\* The request for /about was redirected once and the request for /en/about
\* that followed was let through.
C28_Witness ==
  /\ page = "middleware" /\ pc = "done"
  /\ request.pathname = <<"en", "about">>
  /\ CallCount("NextResponse.redirect") = 1
  /\ calls[Len(calls)] = "NextResponse.next"

\* C28 as stated: the exempt pathnames are those under /api, /_next, /login
\* or /playground.
C28_Original ==
  /\ [][LocaleHandling(UnderNonLocalized)]_vars
  /\ [](CallCount("NextResponse.redirect") <= 1)

\* C29: formatPath never adds the locale to a path that already includes it:
\* for every path and locale the result contains the locale, and formatPath
\* applied to its own result with the same locale returns it unchanged.
C29_FormatPathAddsLocaleOnce ==
  page = "formatPath" =>
    /\ pc \in {"once", "twice"} =>
         \E i \in 1..Len(result.segments) :
           result.segments[i] = localeForPath(args.locale)
    /\ pc = "twice" => result = args.path

\* C24: with AUTH_SECRET unset or empty the build fails in production and
\* yields the development fallback secret elsewhere; a non-empty AUTH_SECRET
\* is the secret in every environment.
C24_SecretFromEnvironment ==
  page = "auth" /\ pc = "done" =>
    IF Truthy(args.AUTH_SECRET)
      THEN ~result.threw /\ result.secret = args.AUTH_SECRET
      ELSE IF args.NODE_ENV = "production"
        THEN result.threw /\ outcome = Failed
        ELSE ~result.threw /\ result.secret = DevelopmentSecret

\* The build failed in production for an unset AUTH_SECRET.
C24_Witness ==
  /\ page = "auth"
  /\ pc = "done"
  /\ args.AUTH_SECRET = Undefined
  /\ args.NODE_ENV = "production"
  /\ result.threw

\* C24 as stated: only a missing AUTH_SECRET is unset, every string value,
\* the empty one included, is used as the secret.
C24_Original ==
  page = "auth" /\ pc = "done" =>
    IF args.AUTH_SECRET # Undefined
      THEN ~result.threw /\ result.secret = args.AUTH_SECRET
      ELSE IF args.NODE_ENV = "production"
        THEN result.threw /\ outcome = Failed
        ELSE ~result.threw /\ result.secret = DevelopmentSecret

\* C26: whenever a component of a rendered page takes the production-mode
\* branch of HeroComponent (secure Canvas mode not detected), the viewer has
\* passed the access check of that component: its accessType is not 'users'
\* with an unauthenticated viewer nor 'anonymous' with an authenticated one,
\* in every page handler that runs the annotate/filter pipeline.
C26_ProductionBranchPassedAccessCheck ==
  ( /\ page \in Pages
    /\ outcome = Render
    /\ rendered # NoComposition
    /\ HeroComponent_production(request) ) =>
    \A n \in Descendants(rendered) :
      /\ ~(AccessTypeValue(n) = "users" /\ ~HasUser(authSession))
      /\ ~(AccessTypeValue(n) = "anonymous" /\ HasUser(authSession))

====
